---- MODULE Spec2Model ----
(***************************************************************************)
(* voice-your-video: the /api/synthesize request handler (server.ts), the  *)
(* sentence-by-sentence synthesis pipeline (speechService.ts) and the      *)
(* per-sentence translation (translationService.ts).                       *)
(*                                                                         *)
(* Strings are sequences of one-character strings, buffers are sequences   *)
(* of bytes.  Source offsets are 0-based, TLA+ sequences are 1-based: the  *)
(* byte at source offset o is buffer[o + 1].                               *)
(***************************************************************************)
EXTENDS Integers, Sequences, FiniteSets, TLC

VARIABLES
    text,               \* req.body.text; a missing text is the empty string
    translateToChinese, \* req.body.translateToChinese
    env,                \* process.env: which credentials are set
    pc,                 \* where the handler of the request stands
    sentences,          \* synthesizeSpeechWithTimings: const sentences
    synthesisPromises,  \* one promise per sentence, with its tempFile
    staging,            \* the file system at the tempFile paths
    synthDone,          \* sentence positions in the order their synthesis resolved
    result,             \* what synthesizeSpeechWithTimings returned
    output,             \* the file system at the four final paths
    translationPromises,\* one promise per sentence of translateSentencesToChinese
    transDone,          \* sentence positions in the order their translation resolved
    translationResult,  \* what translateSentencesToChinese returned
    response,           \* the HTTP response sent
    remoteCalls,        \* history: the remote calls made so far
    call,               \* a function called on its own: its arguments and value
    clock,              \* what Date.now() returns
    requests            \* the requests a server handles side by side

vars == <<text, translateToChinese, env, pc, sentences, synthesisPromises,
          staging, synthDone, result, output, translationPromises, transDone,
          translationResult, response, remoteCalls, call, clock, requests>>

(***************************************************************************)
(* Bounds of the model.                                                    *)
(***************************************************************************)
MaxSentences == 2

(***************************************************************************)
(* Small helpers of the JavaScript runtime.                                *)
(***************************************************************************)
Min(a, b) == IF a < b THEN a ELSE b

Max(a, b) == IF a > b THEN a ELSE b

\* Array.prototype.concat / Buffer.concat over a list of sequences.
RECURSIVE Concat(_)
Concat(list) ==
    IF list = <<>> THEN <<>> ELSE Head(list) \o Concat(Tail(list))

\* String(n) for a non-negative integer n.
DigitChars == <<"0", "1", "2", "3", "4", "5", "6", "7", "8", "9">>

RECURSIVE NumToString(_)
NumToString(n) ==
    IF n < 10 THEN <<DigitChars[n + 1]>>
    ELSE NumToString(n \div 10) \o <<DigitChars[(n % 10) + 1]>>

\* All sequences of up to n elements of S.
RECURSIVE SeqsUpTo(_, _)
SeqsUpTo(S, n) ==
    IF n = 0 THEN {<<>>}
    ELSE SeqsUpTo(S, n - 1)
         \cup { Append(q, x) : q \in { r \in SeqsUpTo(S, n - 1) : Len(r) = n - 1 },
                               x \in S }

\* String.prototype.padStart(width, '0').
RECURSIVE padStart(_, _)
padStart(s, width) ==
    IF Len(s) >= width THEN s ELSE padStart(<<"0">> \o s, width)

\* The characters the regular expression class \s and trim() treat as space.
IsSpace(c) == c \in {" ", "\n", "\t"}

RECURSIVE trimStart(_)
trimStart(s) ==
    IF s # <<>> /\ IsSpace(Head(s)) THEN trimStart(Tail(s)) ELSE s

RECURSIVE trimEnd(_)
trimEnd(s) ==
    IF s # <<>> /\ IsSpace(s[Len(s)]) THEN trimEnd(SubSeq(s, 1, Len(s) - 1)) ELSE s

trim(s) == trimEnd(trimStart(s))

\* Array.prototype.filter.
RECURSIVE SelectNonEmpty(_)
SelectNonEmpty(list) ==
    IF list = <<>> THEN <<>>
    ELSE IF Len(Head(list)) > 0
         THEN <<Head(list)>> \o SelectNonEmpty(Tail(list))
         ELSE SelectNonEmpty(Tail(list))

(***************************************************************************)
(* splitIntoSentences: text.split(/(?<=\.)\s*/).map(trim).filter(nonempty) *)
(***************************************************************************)
\* End of the match of \s* that starts at 0-based position q.
RECURSIVE SkipSpaces(_, _)
SkipSpaces(s, q) ==
    IF q < Len(s) /\ IsSpace(s[q + 1]) THEN SkipSpaces(s, q + 1) ELSE q

\* String.prototype.split with the separator (?<=\.)\s* : p is the end of the
\* last separator, q the position tried next; an empty match at p is skipped.
RECURSIVE SplitLoop(_, _, _, _)
SplitLoop(s, p, q, acc) ==
    IF q >= Len(s)
    THEN Append(acc, SubSeq(s, p + 1, Len(s)))
    ELSE IF ~(q >= 1 /\ s[q] = ".")
         THEN SplitLoop(s, p, q + 1, acc)
         ELSE LET e == SkipSpaces(s, q) IN
              IF e = p
              THEN SplitLoop(s, p, q + 1, acc)
              ELSE SplitLoop(s, e, e, Append(acc, SubSeq(s, p + 1, q)))

\* A variant that does not trim the pieces.
splitWithoutTrim(s) ==
    SelectNonEmpty(SplitLoop(s, 0, 0, <<>>))

splitIntoSentences(s) ==
    LET pieces == SplitLoop(s, 0, 0, <<>>)
        trimmed == [k \in 1..Len(pieces) |-> trim(pieces[k])]
    IN  SelectNonEmpty(trimmed)

(***************************************************************************)
(* Audio containers (RIFF/WAVE), byte for byte.                            *)
(***************************************************************************)
RIFF == <<82, 73, 70, 70>>

WAVE == <<87, 65, 86, 69>>

FMT == <<102, 109, 116, 32>>

DATA == <<100, 97, 116, 97>>

\* buffer.toString('ascii', start, end): the end is clamped to the buffer and
\* the 'ascii' decoder clears the highest bit of every byte.
toAscii(buffer, start, end) ==
    LET last == Min(end, Len(buffer)) IN
    IF start >= last THEN <<>>
    ELSE [k \in 1..(last - start) |-> buffer[start + k] % 128]

\* buffer.slice(start, end), both clamped to the buffer.
slice(buffer, start, end) ==
    SubSeq(buffer, Min(start, Len(buffer)) + 1, Min(end, Len(buffer)))

readUInt16LE(buffer, offset) ==
    buffer[offset + 1] + 256 * buffer[offset + 2]

readUInt32LE(buffer, offset) ==
    buffer[offset + 1] + 256 * buffer[offset + 2]
        + 65536 * buffer[offset + 3] + 16777216 * buffer[offset + 4]

writeUInt16LE(value) == <<value % 256, (value \div 256) % 256>>

writeUInt32LE(value) ==
    <<value % 256, (value \div 256) % 256,
      (value \div 65536) % 256, (value \div 16777216) % 256>>

\* readWavFile's null.
Null == [valid |-> FALSE]

\* (chunkSize / (sampleRate * channels * (bitsPerSample / 8))) * 1000.  The
\* source computes it in doubles; the containers of this model have byte rates
\* that divide 1000, so that the quotient is an integer and \div is exact.
\* A zero byte rate gives Infinity or NaN in the source, written -1 here.
durationOf(chunkSize, sampleRate, channels, bitsPerSample) ==
    IF sampleRate * channels * bitsPerSample = 0 THEN -1
    ELSE (chunkSize * 8 * 1000) \div (sampleRate * channels * bitsPerSample)

\* The while loop of readWavFile; readUInt16LE/readUInt32LE past the end of the
\* buffer throw, and the catch returns null.
RECURSIVE scanChunks(_, _, _, _, _)
scanChunks(buffer, offset, channels, sampleRate, bitsPerSample) ==
    IF ~(offset < Len(buffer) - 8) THEN Null
    ELSE
      LET chunkId == toAscii(buffer, offset, offset + 4)
          chunkSize == readUInt32LE(buffer, offset + 4)
          isFmt == chunkId = FMT
      IN
      IF isFmt /\ offset + 24 > Len(buffer) THEN Null
      ELSE
        LET ch == IF isFmt THEN readUInt16LE(buffer, offset + 10) ELSE channels
            sr == IF isFmt THEN readUInt32LE(buffer, offset + 12) ELSE sampleRate
            bits == IF isFmt THEN readUInt16LE(buffer, offset + 22) ELSE bitsPerSample
        IN
        IF chunkId = DATA
        THEN LET dataStart == offset + 8 IN
             [valid |-> TRUE,
              header |-> slice(buffer, 0, dataStart),
              data |-> slice(buffer, dataStart, dataStart + chunkSize),
              sampleRate |-> sr,
              channels |-> ch,
              bitsPerSample |-> bits,
              durationMs |-> durationOf(chunkSize, sr, ch, bits)]
        ELSE scanChunks(buffer, offset + 8 + chunkSize, ch, sr, bits)

\* readWavFile of a file: file.exists = FALSE makes readFileSync throw.
readWavFile(file) ==
    IF ~file.exists THEN Null
    ELSE IF toAscii(file.bytes, 0, 4) # RIFF THEN Null
    ELSE IF toAscii(file.bytes, 8, 12) # WAVE THEN Null
    ELSE scanChunks(file.bytes, 12, 1, 16000, 16)

\* A variant that declares the size of the whole file in the data chunk.
createWavFileDeclaringFileSize(audioData, sampleRate, channels, bitsPerSample) ==
    LET byteRate == (sampleRate * channels * bitsPerSample) \div 8
        blockAlign == (channels * bitsPerSample) \div 8
        fileSize == 36 + Len(audioData)
        header == RIFF \o writeUInt32LE(fileSize) \o WAVE
                  \o FMT \o writeUInt32LE(16) \o writeUInt16LE(1)
                  \o writeUInt16LE(channels) \o writeUInt32LE(sampleRate)
                  \o writeUInt32LE(byteRate) \o writeUInt16LE(blockAlign)
                  \o writeUInt16LE(bitsPerSample)
                  \o DATA \o writeUInt32LE(fileSize)
    IN  header \o audioData

\* The bytes createWavFile hands to writeFileSync.
createWavFile(audioData, sampleRate, channels, bitsPerSample) ==
    LET byteRate == (sampleRate * channels * bitsPerSample) \div 8
        blockAlign == (channels * bitsPerSample) \div 8
        dataSize == Len(audioData)
        fileSize == 36 + dataSize
        header == RIFF \o writeUInt32LE(fileSize) \o WAVE
                  \o FMT \o writeUInt32LE(16) \o writeUInt16LE(1)
                  \o writeUInt16LE(channels) \o writeUInt32LE(sampleRate)
                  \o writeUInt32LE(byteRate) \o writeUInt16LE(blockAlign)
                  \o writeUInt16LE(bitsPerSample)
                  \o DATA \o writeUInt32LE(dataSize)
    IN  header \o audioData

(***************************************************************************)
(* Subtitle rendering.                                                     *)
(***************************************************************************)
\* Array.prototype.join('\n').
RECURSIVE joinLines(_)
joinLines(lines) ==
    IF lines = <<>> THEN <<>>
    ELSE IF Len(lines) = 1 THEN Head(lines)
    ELSE Head(lines) \o <<"\n">> \o joinLines(Tail(lines))

Arrow == <<" ", "-", "-", ">", " ">>

\* A variant whose hours start again at 0 after a day.
formatSRTTimeOfDay(milliseconds) ==
    LET totalSeconds == milliseconds \div 1000
        hours == (totalSeconds \div 3600) % 24
        minutes == (totalSeconds % 3600) \div 60
        seconds == totalSeconds % 60
        ms == milliseconds % 1000
    IN  padStart(NumToString(hours), 2) \o <<":">>
        \o padStart(NumToString(minutes), 2) \o <<":">>
        \o padStart(NumToString(seconds), 2) \o <<",">>
        \o padStart(NumToString(ms), 3)

\* server.ts formatSRTTime.
formatSRTTime(milliseconds) ==
    LET totalSeconds == milliseconds \div 1000
        hours == totalSeconds \div 3600
        minutes == (totalSeconds % 3600) \div 60
        seconds == totalSeconds % 60
        ms == milliseconds % 1000
    IN  padStart(NumToString(hours), 2) \o <<":">>
        \o padStart(NumToString(minutes), 2) \o <<":">>
        \o padStart(NumToString(seconds), 2) \o <<",">>
        \o padStart(NumToString(ms), 3)

\* translationService.ts formatSRTTime.
formatSRTTimeTranslation(milliseconds) ==
    LET totalSeconds == milliseconds \div 1000
        hours == totalSeconds \div 3600
        minutes == (totalSeconds % 3600) \div 60
        seconds == totalSeconds % 60
        ms == milliseconds % 1000
    IN  padStart(NumToString(hours), 2) \o <<":">>
        \o padStart(NumToString(minutes), 2) \o <<":">>
        \o padStart(NumToString(seconds), 2) \o <<",">>
        \o padStart(NumToString(ms), 3)

\* A variant that leaves out the empty line that ends a record.
generateSRTWithoutBlankLine(sentenceTimings) ==
    IF Len(sentenceTimings) = 0 THEN <<>>
    ELSE joinLines(Concat(
           [k \in 1..Len(sentenceTimings) |->
              LET timing == sentenceTimings[k] IN
              << NumToString(timing.index),
                 formatSRTTime(timing.startTime) \o Arrow
                     \o formatSRTTime(timing.endTime),
                 timing.sentence >>]))

generateSRTFromSentences(sentenceTimings) ==
    IF Len(sentenceTimings) = 0 THEN <<>>
    ELSE joinLines(Concat(
           [k \in 1..Len(sentenceTimings) |->
              LET timing == sentenceTimings[k] IN
              << NumToString(timing.index),
                 formatSRTTime(timing.startTime) \o Arrow
                     \o formatSRTTime(timing.endTime),
                 timing.sentence,
                 <<>> >>]))

\* A variant that repeats the last translation for the sentences beyond it.
translationAtOrLast(translations, k) ==
    IF translations = <<>> THEN <<>>
    ELSE translations[Min(k, Len(translations))]

\* translations[i] || ''
translationAt(translations, k) ==
    IF k <= Len(translations) THEN translations[k] ELSE <<>>

generateBilingualSRT(sentenceTimings, translations) ==
    IF Len(sentenceTimings) = 0 THEN <<>>
    ELSE joinLines(Concat(
           [k \in 1..Len(sentenceTimings) |->
              LET timing == sentenceTimings[k] IN
              << NumToString(timing.index),
                 formatSRTTimeTranslation(timing.startTime) \o Arrow
                     \o formatSRTTimeTranslation(timing.endTime),
                 timing.sentence,
                 translationAt(translations, k),
                 <<>> >>]))

generateChineseSRT(sentenceTimings, translations) ==
    IF Len(sentenceTimings) = 0 THEN <<>>
    ELSE joinLines(Concat(
           [k \in 1..Len(sentenceTimings) |->
              LET timing == sentenceTimings[k] IN
              << NumToString(timing.index),
                 formatSRTTimeTranslation(timing.startTime) \o Arrow
                     \o formatSRTTimeTranslation(timing.endTime),
                 translationAt(translations, k),
                 <<>> >>]))

(***************************************************************************)
(* The inputs of the model: request texts, the outcomes the speech SDK can *)
(* report for one sentence, the replies of the translation deployment.     *)
(***************************************************************************)
Corpus == << <<"A", ".">>, <<"B", ".">>, <<"A", ".">>, <<"C", ".">> >>

RECURSIVE joinWords(_)
joinWords(words) ==
    IF words = <<>> THEN <<>>
    ELSE IF Len(words) = 1 THEN Head(words)
    ELSE Head(words) \o <<" ">> \o joinWords(Tail(words))

\* "", "A.", "A. B.", ... and two texts with blanks around them.
InputTexts ==
    { joinWords(SubSeq(Corpus, 1, k)) : k \in 0..Min(MaxSentences, Len(Corpus)) }
        \cup { <<" ">>, <<" ", "A", ".", "\n">> }

NoFile == [exists |-> FALSE, bytes |-> <<>>]

EmptyFile == [exists |-> TRUE, bytes |-> <<>>]

FileOf(bytes) == [exists |-> TRUE, bytes |-> bytes]

\* Containers the SDK may leave at tempFile after a completed synthesis: two
\* sample formats, and one container without any sample (an empty utterance).
StagedFiles ==
    { FileOf(createWavFile(<<1>>, 250, 1, 8)),
      FileOf(createWavFile(<<2, 3>>, 250, 1, 8)),
      FileOf(createWavFile(<<4>>, 125, 2, 16)),
      FileOf(createWavFile(<<>>, 250, 1, 8)) }

\* What speakTextAsync reports: the result callback with a reason, the error
\* callback, or an exception thrown while the synthesizer is set up.  wordEnd
\* is the furthest (audioOffset + duration) / 10000 of the word boundary
\* events seen, audioDuration is in 100ns ticks.
SdkOutcomes ==
    { [reason |-> "SynthesizingAudioCompleted", details |-> <<>>,
       wordEnd |-> 0, audioDuration |-> 80000, file |-> f] : f \in StagedFiles }
    \cup
    { [reason |-> "Canceled", details |-> <<"quota exceeded">>,
       wordEnd |-> 0, audioDuration |-> 0, file |-> EmptyFile],
      [reason |-> "SynthesizingAudioStarted", details |-> <<>>,
       wordEnd |-> 0, audioDuration |-> 0, file |-> EmptyFile],
      [reason |-> "ErrorCallback", details |-> <<"ECONNRESET">>,
       wordEnd |-> 0, audioDuration |-> 0, file |-> EmptyFile],
      [reason |-> "Exception", details |-> <<"throwIfNullOrWhitespace:subscriptionKey">>,
       wordEnd |-> 0, audioDuration |-> 0, file |-> NoFile] }

\* What fetch gives translateSingleSentence: a response, or an exception.
TranslationReplies ==
    { [thrown |-> FALSE, ok |-> TRUE, status |-> 200, content |-> <<"X">>],
      [thrown |-> FALSE, ok |-> TRUE, status |-> 200, content |-> <<" ", "Y">>],
      [thrown |-> FALSE, ok |-> TRUE, status |-> 200, content |-> <<" ">>],
      [thrown |-> FALSE, ok |-> TRUE, status |-> 200, content |-> <<>>],
      [thrown |-> FALSE, ok |-> FALSE, status |-> 429, content |-> <<"busy">>],
      [thrown |-> TRUE, ok |-> FALSE, status |-> 0, content |-> <<"fetch failed">>] }

(***************************************************************************)
(* synthesizeSentence: the value its promise resolves with.                *)
(***************************************************************************)
synthesizeSentence(outcome) ==
    IF outcome.reason = "SynthesizingAudioCompleted"
    THEN [success |-> TRUE,
          duration |-> IF outcome.wordEnd = 0 /\ outcome.audioDuration # 0
                       THEN outcome.audioDuration \div 10000
                       ELSE outcome.wordEnd,
          error |-> <<>>]
    ELSE IF outcome.reason = "Canceled"
    THEN [success |-> FALSE, duration |-> 0,
          error |-> <<"Synthesis canceled: ">> \o outcome.details]
    ELSE IF outcome.reason \in {"ErrorCallback", "Exception"}
    THEN [success |-> FALSE, duration |-> 0, error |-> outcome.details]
    ELSE [success |-> FALSE, duration |-> 0,
          error |-> <<"Unexpected result: ", outcome.reason>>]

(***************************************************************************)
(* translateSingleSentence: the value its promise resolves with.           *)
(***************************************************************************)
\* A variant that returns whatever content the response carries.
translateSingleSentenceAcceptingBlank(reply, index) ==
    IF reply.thrown
    THEN [success |-> FALSE, translation |-> <<>>, index |-> index,
          error |-> reply.content]
    ELSE IF ~reply.ok
    THEN [success |-> FALSE, translation |-> <<>>, index |-> index,
          error |-> <<"API error: ">> \o NumToString(reply.status)
                        \o <<" - ">> \o reply.content]
    ELSE [success |-> TRUE, translation |-> trim(reply.content), index |-> index,
          error |-> <<>>]

translateSingleSentence(reply, index) ==
    IF reply.thrown
    THEN [success |-> FALSE, translation |-> <<>>, index |-> index,
          error |-> reply.content]
    ELSE IF ~reply.ok
    THEN [success |-> FALSE, translation |-> <<>>, index |-> index,
          error |-> <<"API error: ">> \o NumToString(reply.status)
                        \o <<" - ">> \o reply.content]
    ELSE LET translation == trim(reply.content) IN
         IF translation = <<>>
         THEN [success |-> FALSE, translation |-> <<>>, index |-> index,
               error |-> <<"No translation returned from API">>]
         ELSE [success |-> TRUE, translation |-> translation, index |-> index,
               error |-> <<>>]

(***************************************************************************)
(* Promise.all, Array.prototype.find and Array.prototype.sort.             *)
(***************************************************************************)
\* A join that hands the values over in the order they were settled.
PromiseAllInSettlingOrder(promises, done) ==
    [k \in 1..Len(done) |-> promises[done[k]].value]

\* Promise.all(promises): the values in the order of the promises array,
\* whatever the order `done` in which they were settled.
PromiseAll(promises, done) ==
    [k \in 1..Len(promises) |-> promises[k].value]

\* synthesisResults.find(r => !r.result.success): its position, 0 for undefined.
RECURSIVE findFailedFrom(_, _)
findFailedFrom(results, k) ==
    IF k > Len(results) THEN 0
    ELSE IF ~results[k].result.success THEN k
    ELSE findFailedFrom(results, k + 1)

findFailedSynthesis(results) == findFailedFrom(results, 1)

\* results.find(r => !r.success): its position, 0 for undefined.
RECURSIVE findFailedTranslationFrom(_, _)
findFailedTranslationFrom(results, k) ==
    IF k > Len(results) THEN 0
    ELSE IF ~results[k].success THEN k
    ELSE findFailedTranslationFrom(results, k + 1)

\* A search that returns the last failed result instead of the first.
RECURSIVE findLastFailedTranslationFrom(_, _)
findLastFailedTranslationFrom(results, k) ==
    IF k < 1 THEN 0
    ELSE IF ~results[k].success THEN k
    ELSE findLastFailedTranslationFrom(results, k - 1)

findLastFailedTranslation(results) ==
    findLastFailedTranslationFrom(results, Len(results))

findFailedTranslation(results) == findFailedTranslationFrom(results, 1)

\* results.sort((a, b) => a.index - b.index): a stable sort.
RECURSIVE insertByIndex(_, _)
insertByIndex(sorted, r) ==
    IF sorted = <<>> THEN <<r>>
    ELSE IF r.index < Head(sorted).index THEN <<r>> \o sorted
    ELSE <<Head(sorted)>> \o insertByIndex(Tail(sorted), r)

\* A sort with the comparison the wrong way round: (a, b) => b.index - a.index.
RECURSIVE insertByIndexDescending(_, _)
insertByIndexDescending(sorted, r) ==
    IF sorted = <<>> THEN <<r>>
    ELSE IF r.index > Head(sorted).index THEN <<r>> \o sorted
    ELSE <<Head(sorted)>> \o insertByIndexDescending(Tail(sorted), r)

RECURSIVE sortByIndexDescending(_)
sortByIndexDescending(results) ==
    IF results = <<>> THEN <<>>
    ELSE insertByIndexDescending(
             sortByIndexDescending(SubSeq(results, 1, Len(results) - 1)),
             results[Len(results)])

RECURSIVE sortByIndex(_)
sortByIndex(results) ==
    IF results = <<>> THEN <<>>
    ELSE insertByIndex(sortByIndex(SubSeq(results, 1, Len(results) - 1)),
                       results[Len(results)])

(***************************************************************************)
(* synthesizeSpeechWithTimings after the join (speechService.ts 252-331).  *)
(***************************************************************************)
\* A variant of the loop that puts each buffer in front of the earlier ones.
RECURSIVE readFragmentsPrepending(_, _, _, _)
readFragmentsPrepending(synthesisResults, files, k, acc) ==
    IF k > Len(synthesisResults) THEN acc
    ELSE
      LET r == synthesisResults[k]
          wavData == readWavFile(files[r.tempFile + 1])
      IN
      IF wavData.valid
      THEN readFragmentsPrepending(synthesisResults, files, k + 1,
             [audioBuffers |-> <<wavData.data>> \o acc.audioBuffers,
              sampleRate |-> wavData.sampleRate,
              channels |-> wavData.channels,
              bitsPerSample |-> wavData.bitsPerSample,
              sentenceDurations |-> Append(acc.sentenceDurations,
                  [sentence |-> r.sentence, durationMs |-> wavData.durationMs])])
      ELSE readFragmentsPrepending(synthesisResults, files, k + 1,
             [acc EXCEPT !.sentenceDurations = Append(acc.sentenceDurations,
                  [sentence |-> r.sentence, durationMs |-> 0])])

\* The loop that reads every tempFile: audioBuffers, the format variables
\* and sentenceDurations after the entries from position k on.
RECURSIVE readFragments(_, _, _, _)
readFragments(synthesisResults, files, k, acc) ==
    IF k > Len(synthesisResults) THEN acc
    ELSE
      LET r == synthesisResults[k]
          wavData == readWavFile(files[r.tempFile + 1])
      IN
      IF wavData.valid
      THEN readFragments(synthesisResults, files, k + 1,
             [audioBuffers |-> Append(acc.audioBuffers, wavData.data),
              sampleRate |-> wavData.sampleRate,
              channels |-> wavData.channels,
              bitsPerSample |-> wavData.bitsPerSample,
              sentenceDurations |-> Append(acc.sentenceDurations,
                  [sentence |-> r.sentence, durationMs |-> wavData.durationMs])])
      ELSE readFragments(synthesisResults, files, k + 1,
             [acc EXCEPT !.sentenceDurations = Append(acc.sentenceDurations,
                  [sentence |-> r.sentence, durationMs |-> 0])])

\* A loop that forgets `currentTime += durationMs`.
RECURSIVE buildTimingsWithoutAdvance(_, _, _, _)
buildTimingsWithoutAdvance(sentenceDurations, i, currentTime, sentenceTimings) ==
    IF ~(i < Len(sentenceDurations)) THEN sentenceTimings
    ELSE
      LET d == sentenceDurations[i + 1] IN
      buildTimingsWithoutAdvance(sentenceDurations, i + 1, currentTime,
          Append(sentenceTimings,
                 [sentence |-> d.sentence,
                  startTime |-> currentTime,
                  endTime |-> currentTime + d.durationMs,
                  index |-> i + 1]))

\* The loop that builds sentenceTimings from sentenceDurations.
RECURSIVE buildTimings(_, _, _, _)
buildTimings(sentenceDurations, i, currentTime, sentenceTimings) ==
    IF ~(i < Len(sentenceDurations)) THEN sentenceTimings
    ELSE
      LET d == sentenceDurations[i + 1] IN
      buildTimings(sentenceDurations, i + 1, currentTime + d.durationMs,
          Append(sentenceTimings,
                 [sentence |-> d.sentence,
                  startTime |-> currentTime,
                  endTime |-> currentTime + d.durationMs,
                  index |-> i + 1]))

\* currentTime after the loop.
RECURSIVE totalDuration(_)
totalDuration(sentenceDurations) ==
    IF sentenceDurations = <<>> THEN 0
    ELSE Head(sentenceDurations).durationMs + totalDuration(Tail(sentenceDurations))

\* A clean-up that removes the tempFiles of the failed syntheses only.
cleanUpFailedOnly(synthesisResults, files) ==
    [k \in DOMAIN files |->
        IF \E j \in 1..Len(synthesisResults) :
              /\ synthesisResults[j].tempFile + 1 = k
              /\ ~synthesisResults[j].result.success
        THEN NoFile ELSE files[k]]

\* synthesisResults.forEach(r => unlink r.tempFile if it exists).
cleanUp(synthesisResults, files) ==
    [k \in DOMAIN files |->
        IF \E j \in 1..Len(synthesisResults) : synthesisResults[j].tempFile + 1 = k
        THEN NoFile ELSE files[k]]

Failure(error) ==
    [success |-> FALSE, error |-> error, sentenceTimings |-> <<>>, duration |-> 0]

NoResult == Failure(<<>>)

NoOutput == [audio |-> NoFile, srt |-> NoFile, chinese |-> NoFile, bilingual |-> NoFile]

NoResponse == [status |-> 0, error |-> <<>>]

\* What the code after `await Promise.all` does with the settled promises:
\* the value returned, the tempFiles and the combined audio file afterwards.
\* writeThrows: writeFileSync of the combined container throws.
afterJoin(promises, done, files, audio, writeThrows) ==
    LET synthesisResults == PromiseAll(promises, done)
        failed == findFailedSynthesis(synthesisResults)
    IN
    IF failed # 0
    THEN [result |-> Failure(synthesisResults[failed].result.error),
          staging |-> cleanUp(synthesisResults, files),
          audio |-> audio]
    ELSE
      LET sorted == sortByIndex(synthesisResults)
          read == readFragments(sorted, files, 1,
                    [audioBuffers |-> <<>>, sampleRate |-> 16000, channels |-> 1,
                     bitsPerSample |-> 16, sentenceDurations |-> <<>>])
          combinedAudio == Concat(read.audioBuffers)
      IN
      IF writeThrows
      THEN [result |-> Failure(<<"EACCES: permission denied">>),
            staging |-> files,
            audio |-> audio]
      ELSE [result |-> [success |-> TRUE, error |-> <<>>,
                        sentenceTimings |->
                            buildTimings(read.sentenceDurations, 0, 0, <<>>),
                        duration |-> totalDuration(read.sentenceDurations)],
            staging |-> cleanUp(sorted, files),
            audio |-> FileOf(createWavFile(combinedAudio, read.sampleRate,
                                           read.channels, read.bitsPerSample))]

(***************************************************************************)
(* translateSentencesToChinese after the join (translationService 28-41).  *)
(***************************************************************************)
\* A variant that collects each translation when its request is answered.
translateSentencesAsAnswered(promises, done) ==
    LET results == PromiseAllInSettlingOrder(promises, done)
        failed == findFailedTranslation(results)
    IN
    IF failed # 0
    THEN [success |-> FALSE, translations |-> <<>>, error |-> results[failed].error]
    ELSE [success |-> TRUE,
          translations |-> [k \in 1..Len(results) |-> results[k].translation],
          error |-> <<>>]

translateSentencesToChinese(promises, done) ==
    LET results == PromiseAll(promises, done)
        failed == findFailedTranslation(results)
    IN
    IF failed # 0
    THEN [success |-> FALSE, translations |-> <<>>, error |-> results[failed].error]
    ELSE LET sorted == sortByIndex(results) IN
         [success |-> TRUE,
          translations |-> [k \in 1..Len(sorted) |-> sorted[k].translation],
          error |-> <<>>]

NoTranslation == [success |-> FALSE, translations |-> <<>>, error |-> <<>>]

SpeechNotConfigured == <<"Azure Speech Services not configured">>

TranslationNotConfigured == <<"Azure OpenAI not configured for translation">>

\* No function has been called on its own.
NoCall == [fn |-> "none"]

(***************************************************************************)
(* The request handler as a state machine.  Every action is one run of     *)
(* JavaScript between two awaits.                                          *)
(***************************************************************************)
Init ==
    /\ text \in InputTexts
    /\ translateToChinese \in BOOLEAN
    /\ env \in [speech : BOOLEAN, openai : BOOLEAN]
    /\ pc = "idle"
    /\ sentences = <<>>
    /\ synthesisPromises = <<>>
    /\ staging = <<>>
    /\ synthDone = <<>>
    /\ result = NoResult
    /\ output = NoOutput
    /\ translationPromises = <<>>
    /\ transDone = <<>>
    /\ translationResult = NoTranslation
    /\ response = NoResponse
    /\ remoteCalls = [synthesis |-> 0, translation |-> 0]
    /\ call = NoCall
    /\ clock = 0
    /\ requests = <<>>

\* server.ts 30-37: the text is missing or blank.
RejectText ==
    /\ pc = "idle"
    /\ trim(text) = <<>>
    /\ response' = [status |-> 400, error |-> <<"Text is required">>]
    /\ pc' = "done"
    /\ UNCHANGED <<call, clock, requests, text, translateToChinese, env,
                   sentences, synthesisPromises,
                   staging, synthDone, result, output, translationPromises,
                   transDone, translationResult, remoteCalls>>

\* server.ts 39-45: the speech credentials are missing.
RejectSpeechConfig ==
    /\ pc = "idle"
    /\ trim(text) # <<>>
    /\ ~env.speech
    /\ response' = [status |-> 500, error |-> SpeechNotConfigured]
    /\ pc' = "done"
    /\ UNCHANGED <<call, clock, requests, text, translateToChinese, env,
                   sentences, synthesisPromises,
                   staging, synthDone, result, output, translationPromises,
                   transDone, translationResult, remoteCalls>>

\* A variant that launches the batch without looking at the number of
\* sentences.
synthesizeSpeechUnchecked(optionsText) ==
    LET split == splitIntoSentences(optionsText) IN
    /\ sentences' = split
    /\ synthesisPromises' =
          [k \in 1..Len(split) |->
             [settled |-> FALSE,
              value |-> [index |-> k - 1, sentence |-> split[k],
                         tempFile |-> k - 1,
                         result |-> [success |-> FALSE, duration |-> 0,
                                     error |-> <<>>]]]]
    /\ staging' = [k \in 1..Len(split) |-> NoFile]
    /\ remoteCalls' = [remoteCalls EXCEPT !.synthesis = @ + Len(split)]
    /\ pc' = "awaitSynthesis"
    /\ UNCHANGED result

\* speechService.ts 210-248: synthesizeSpeechWithTimings up to its
\* `await Promise.all`: split the text and start one synthesis per sentence.
synthesizeSpeechWithTimings(optionsText) ==
    LET split == splitIntoSentences(optionsText) IN
    /\ sentences' = split
    /\ IF Len(split) = 0
       THEN /\ result' = Failure(<<"No sentences found in text">>)
            /\ pc' = "synthesisReturned"
            /\ UNCHANGED <<synthesisPromises, staging, remoteCalls>>
       ELSE /\ synthesisPromises' =
                  [k \in 1..Len(split) |->
                     [settled |-> FALSE,
                      value |-> [index |-> k - 1, sentence |-> split[k],
                                 tempFile |-> k - 1,
                                 result |-> [success |-> FALSE, duration |-> 0,
                                             error |-> <<>>]]]]
            /\ staging' = [k \in 1..Len(split) |-> NoFile]
            /\ remoteCalls' = [remoteCalls EXCEPT
                                 !.synthesis = @ + Len(split)]
            /\ pc' = "awaitSynthesis"
            /\ UNCHANGED result

\* server.ts 47-69: the handler calls synthesizeSpeechWithTimings with the
\* trimmed text.
StartSynthesis ==
    /\ pc = "idle"
    /\ trim(text) # <<>>
    /\ env.speech
    /\ synthesizeSpeechWithTimings(trim(text))
    /\ UNCHANGED <<call, clock, requests, text, translateToChinese, env,
                   synthDone, output,
                   translationPromises, transDone, translationResult, response>>

\* speechService.ts 71-108: the SDK calls back for sentence k; its promise
\* resolves and the SDK has left `outcome.file` at tempFile.
SynthesisSettles(k, outcome) ==
    /\ pc = "awaitSynthesis"
    /\ ~synthesisPromises[k].settled
    /\ synthesisPromises' = [synthesisPromises EXCEPT
           ![k].settled = TRUE,
           ![k].value.result = synthesizeSentence(outcome)]
    /\ staging' = [staging EXCEPT ![k] = outcome.file]
    /\ synthDone' = Append(synthDone, k)
    /\ UNCHANGED <<call, clock, requests, text, translateToChinese, env,
                   pc, sentences, result, output,
                   translationPromises, transDone, translationResult, response,
                   remoteCalls>>

\* A variant that goes on as soon as one synthesis has failed.
SynthesisJoinAtFirstFailure(writeThrows) ==
    /\ pc = "awaitSynthesis"
    /\ \/ \A k \in 1..Len(synthesisPromises) : synthesisPromises[k].settled
       \/ \E k \in 1..Len(synthesisPromises) :
             /\ synthesisPromises[k].settled
             /\ ~synthesisPromises[k].value.result.success
    /\ LET after == afterJoin(synthesisPromises, synthDone, staging,
                              output.audio, writeThrows) IN
       /\ result' = after.result
       /\ staging' = after.staging
       /\ output' = [output EXCEPT !.audio = after.audio]
    /\ pc' = "synthesisReturned"
    /\ UNCHANGED <<call, clock, requests, text, translateToChinese, env,
                   sentences, synthesisPromises, synthDone, translationPromises,
                   transDone, translationResult, response, remoteCalls>>

\* speechService.ts 248-331: every promise is settled, Promise.all resolves
\* and synthesizeSpeechWithTimings runs to its return.
SynthesisJoin(writeThrows) ==
    /\ pc = "awaitSynthesis"
    /\ \A k \in 1..Len(synthesisPromises) : synthesisPromises[k].settled
    /\ LET after == afterJoin(synthesisPromises, synthDone, staging,
                              output.audio, writeThrows) IN
       /\ result' = after.result
       /\ staging' = after.staging
       /\ output' = [output EXCEPT !.audio = after.audio]
    /\ pc' = "synthesisReturned"
    /\ UNCHANGED <<call, clock, requests, text, translateToChinese, env,
                   sentences, synthesisPromises,
                   synthDone, translationPromises, transDone, translationResult,
                   response, remoteCalls>>

\* server.ts 71-74: synthesis failed.
AnswerSynthesisFailure ==
    /\ pc = "synthesisReturned"
    /\ ~result.success
    /\ response' = [status |-> 500, error |-> result.error]
    /\ pc' = "done"
    /\ UNCHANGED <<call, clock, requests, text, translateToChinese, env,
                   sentences, synthesisPromises,
                   staging, synthDone, result, output, translationPromises,
                   transDone, translationResult, remoteCalls>>

WantsTranslation == translateToChinese /\ Len(result.sentenceTimings) > 0

\* server.ts 76-91 and 140: write the subtitle file and answer; no translation.
AnswerWithoutTranslation ==
    /\ pc = "synthesisReturned"
    /\ result.success
    /\ ~WantsTranslation
    /\ output' = [output EXCEPT
           !.srt = FileOf(generateSRTFromSentences(result.sentenceTimings))]
    /\ response' = [status |-> 200, error |-> <<>>]
    /\ pc' = "done"
    /\ UNCHANGED <<call, clock, requests, text, translateToChinese, env,
                   sentences, synthesisPromises,
                   staging, synthDone, result, translationPromises, transDone,
                   translationResult, remoteCalls>>

\* server.ts 76-104: write the subtitle file, then find the translation
\* credentials missing.
RejectTranslationConfig ==
    /\ pc = "synthesisReturned"
    /\ result.success
    /\ WantsTranslation
    /\ ~env.openai
    /\ output' = [output EXCEPT
           !.srt = FileOf(generateSRTFromSentences(result.sentenceTimings))]
    /\ response' = [status |-> 500, error |-> TranslationNotConfigured]
    /\ pc' = "done"
    /\ UNCHANGED <<call, clock, requests, text, translateToChinese, env,
                   sentences, synthesisPromises,
                   staging, synthDone, result, translationPromises, transDone,
                   translationResult, remoteCalls>>

\* server.ts 76-115 and translationService.ts 20-28: write the subtitle file
\* and start one translation request per sentence.
StartTranslation ==
    /\ pc = "synthesisReturned"
    /\ result.success
    /\ WantsTranslation
    /\ env.openai
    /\ output' = [output EXCEPT
           !.srt = FileOf(generateSRTFromSentences(result.sentenceTimings))]
    /\ translationPromises' =
           [k \in 1..Len(result.sentenceTimings) |->
              [settled |-> FALSE,
               sentence |-> result.sentenceTimings[k].sentence,
               value |-> [success |-> FALSE, translation |-> <<>>,
                          index |-> k - 1, error |-> <<>>]]]
    /\ remoteCalls' = [remoteCalls EXCEPT
           !.translation = @ + Len(result.sentenceTimings)]
    /\ pc' = "awaitTranslation"
    /\ UNCHANGED <<call, clock, requests, text, translateToChinese, env,
                   sentences, synthesisPromises,
                   staging, synthDone, result, transDone, translationResult,
                   response>>

\* translationService.ts 51-120: the request for sentence k is answered.
TranslationSettles(k, reply) ==
    /\ pc = "awaitTranslation"
    /\ ~translationPromises[k].settled
    /\ translationPromises' = [translationPromises EXCEPT
           ![k].settled = TRUE,
           ![k].value = translateSingleSentence(reply, k - 1)]
    /\ transDone' = Append(transDone, k)
    /\ UNCHANGED <<call, clock, requests, text, translateToChinese, env,
                   pc, sentences,
                   synthesisPromises, staging, synthDone, result, output,
                   translationResult, response, remoteCalls>>

\* translationService.ts 28-41: every request is answered, Promise.all
\* resolves and translateSentencesToChinese returns.
TranslationJoin ==
    /\ pc = "awaitTranslation"
    /\ \A k \in 1..Len(translationPromises) : translationPromises[k].settled
    /\ translationResult' = translateSentencesToChinese(translationPromises, transDone)
    /\ pc' = "translationReturned"
    /\ UNCHANGED <<call, clock, requests, text, translateToChinese, env,
                   sentences, synthesisPromises,
                   staging, synthDone, result, output, translationPromises,
                   transDone, response, remoteCalls>>

\* server.ts 117-120: translation failed.
AnswerTranslationFailure ==
    /\ pc = "translationReturned"
    /\ ~translationResult.success
    /\ response' = [status |-> 500, error |-> translationResult.error]
    /\ pc' = "done"
    /\ UNCHANGED <<call, clock, requests, text, translateToChinese, env,
                   sentences, synthesisPromises,
                   staging, synthDone, result, output, translationPromises,
                   transDone, translationResult, remoteCalls>>

\* server.ts 122-140: write the two translated subtitle files and answer.
AnswerWithTranslation ==
    /\ pc = "translationReturned"
    /\ translationResult.success
    /\ output' = [output EXCEPT
           !.chinese = FileOf(generateChineseSRT(result.sentenceTimings,
                                                 translationResult.translations)),
           !.bilingual = FileOf(generateBilingualSRT(result.sentenceTimings,
                                                 translationResult.translations))]
    /\ response' = [status |-> 200, error |-> <<>>]
    /\ pc' = "done"
    /\ UNCHANGED <<call, clock, requests, text, translateToChinese, env,
                   sentences, synthesisPromises,
                   staging, synthDone, result, translationPromises, transDone,
                   translationResult, remoteCalls>>

Next ==
    \/ RejectText
    \/ RejectSpeechConfig
    \/ StartSynthesis
    \/ \E k \in 1..Len(synthesisPromises), outcome \in SdkOutcomes :
          SynthesisSettles(k, outcome)
    \/ \E writeThrows \in BOOLEAN : SynthesisJoin(writeThrows)
    \/ AnswerSynthesisFailure
    \/ AnswerWithoutTranslation
    \/ RejectTranslationConfig
    \/ StartTranslation
    \/ \E k \in 1..Len(translationPromises), reply \in TranslationReplies :
          TranslationSettles(k, reply)
    \/ TranslationJoin
    \/ AnswerTranslationFailure
    \/ AnswerWithTranslation

Spec == Init /\ [][Next]_vars

(***************************************************************************)
(* synthesizeSpeechWithTimings called by another caller than the handler:  *)
(* the function is exported and takes the text as it is given.             *)
(***************************************************************************)
InitDirect ==
    /\ text \in InputTexts
    /\ translateToChinese = FALSE
    /\ env = [speech |-> TRUE, openai |-> TRUE]
    /\ pc = "idle"
    /\ sentences = <<>>
    /\ synthesisPromises = <<>>
    /\ staging = <<>>
    /\ synthDone = <<>>
    /\ result = NoResult
    /\ output = NoOutput
    /\ translationPromises = <<>>
    /\ transDone = <<>>
    /\ translationResult = NoTranslation
    /\ response = NoResponse
    /\ remoteCalls = [synthesis |-> 0, translation |-> 0]
    /\ call = NoCall
    /\ clock = 0
    /\ requests = <<>>

\* speechService.ts 210-248 with options.text = text.
CallSynthesis ==
    /\ pc = "idle"
    /\ synthesizeSpeechWithTimings(text)
    /\ UNCHANGED <<call, clock, requests, text, translateToChinese, env,
                   synthDone, output, translationPromises, transDone,
                   translationResult, response>>

NextDirect ==
    \/ CallSynthesis
    \/ \E k \in 1..Len(synthesisPromises), outcome \in SdkOutcomes :
          SynthesisSettles(k, outcome)
    \/ \E writeThrows \in BOOLEAN : SynthesisJoin(writeThrows)

SpecDirect == InitDirect /\ [][NextDirect]_vars

(***************************************************************************)
(* The variables of the request handler, and the handler at rest: the      *)
(* other specifications of this module leave it there.                     *)
(***************************************************************************)
handlerVars == <<text, translateToChinese, env, pc, sentences, synthesisPromises,
                 staging, synthDone, result, output, translationPromises,
                 transDone, translationResult, response, remoteCalls>>

HandlerAtRest ==
    /\ text = <<>>
    /\ translateToChinese = FALSE
    /\ env = [speech |-> TRUE, openai |-> TRUE]
    /\ pc = "idle"
    /\ sentences = <<>>
    /\ synthesisPromises = <<>>
    /\ staging = <<>>
    /\ synthDone = <<>>
    /\ result = NoResult
    /\ output = NoOutput
    /\ translationPromises = <<>>
    /\ transDone = <<>>
    /\ translationResult = NoTranslation
    /\ response = NoResponse
    /\ remoteCalls = [synthesis |-> 0, translation |-> 0]

(***************************************************************************)
(* Several requests handled side by side by one server: all of them stage  *)
(* their fragments in the same directory, path.dirname(outputFilePath) =   *)
(* outputDir.  Date.now() counts milliseconds; the model counts from 0.    *)
(***************************************************************************)
MaxRequests == 2

MaxClock == 2

TempPrefix == <<"t", "e", "m", "p", "_", "s", "e", "n", "t", "e", "n", "c", "e", "_">>

\* speechService.ts 228: `temp_sentence_${timestamp}_${i}.wav`.
tempFileName(timestamp, i) ==
    TempPrefix \o NumToString(timestamp) \o <<"_">> \o NumToString(i)
        \o <<".", "w", "a", "v">>

\* The characters of [a-zA-Z0-9] that the voice names of the model use.
AlphaNumeric == {"a", "B", "c", "0", "1", "2"}

\* server.ts 51: voiceName.replace(/[^a-zA-Z0-9]/g, '_').
safeVoiceName(voiceName) ==
    [k \in 1..Len(voiceName) |->
        IF voiceName[k] \in AlphaNumeric THEN voiceName[k] ELSE "_"]

\* server.ts 52: `speech_${timestamp}_${safeVoiceName}`.
baseFilename(timestamp, voiceName) ==
    <<"s", "p", "e", "e", "c", "h", "_">> \o NumToString(timestamp)
        \o <<"_">> \o safeVoiceName(voiceName)

\* The voiceName of a request.
VoiceNames == { <<"a", "-", "B">>, <<"a", "_", "B">>, <<"c">> }

WaitingRequest ==
    [pc |-> "waiting", timestamp |-> 0, tempFiles |-> <<>>, settled |-> <<>>,
     audioFilePath |-> <<>>, srtFilePath |-> <<>>]

InitBatches ==
    /\ HandlerAtRest
    /\ call = NoCall
    /\ clock = 0
    /\ requests = [r \in 1..MaxRequests |-> WaitingRequest]

\* A millisecond passes.
Tick ==
    /\ clock < MaxClock
    /\ clock' = clock + 1
    /\ UNCHANGED <<handlerVars, call, requests>>

\* server.ts 30-69 and speechService.ts 210-248 for request r: the handler
\* names the final files after Date.now() and the voice, the text has
\* sentences, the batch takes its own timestamp, `elapsed` milliseconds
\* later, and starts one synthesis per sentence, each with its tempFile.
BatchStarts(r, requestText, voiceName, elapsed) ==
    /\ requests[r].pc = "waiting"
    /\ clock + elapsed <= MaxClock
    /\ LET split == splitIntoSentences(trim(requestText))
           base == baseFilename(clock, voiceName)
       IN
       /\ Len(split) > 0
       /\ requests' = [requests EXCEPT ![r] =
              [pc |-> "awaitSynthesis",
               timestamp |-> clock + elapsed,
               tempFiles |-> [k \in 1..Len(split) |->
                                tempFileName(clock + elapsed, k - 1)],
               settled |-> [k \in 1..Len(split) |-> FALSE],
               audioFilePath |-> base \o <<".", "w", "a", "v">>,
               srtFilePath |-> base \o <<".", "s", "r", "t">>]]
    /\ clock' = clock + elapsed
    /\ UNCHANGED <<handlerVars, call>>

\* speechService.ts 71-108: the synthesis of fragment k of request r ends.
FragmentSettles(r, k) ==
    /\ requests[r].pc = "awaitSynthesis"
    /\ k <= Len(requests[r].settled)
    /\ ~requests[r].settled[k]
    /\ requests' = [requests EXCEPT ![r].settled[k] = TRUE]
    /\ UNCHANGED <<handlerVars, call, clock>>

\* speechService.ts 248-331: the batch of request r is joined and returns.
BatchReturns(r) ==
    /\ requests[r].pc = "awaitSynthesis"
    /\ \A k \in 1..Len(requests[r].settled) : requests[r].settled[k]
    /\ requests' = [requests EXCEPT ![r].pc = "returned"]
    /\ UNCHANGED <<handlerVars, call, clock>>

NextBatches ==
    \/ Tick
    \/ \E r \in 1..MaxRequests, requestText \in InputTexts,
          voiceName \in VoiceNames, elapsed \in {0, 1} :
          BatchStarts(r, requestText, voiceName, elapsed)
    \/ \E r \in 1..MaxRequests, k \in 1..MaxSentences : FragmentSettles(r, k)
    \/ \E r \in 1..MaxRequests : BatchReturns(r)

SpecBatches == InitBatches /\ [][NextBatches]_vars

(***************************************************************************)
(* The container codec on its own: createWavFile and readWavFile called    *)
(* with sample buffers, formats and files of every kind.                   *)
(***************************************************************************)
MaxDataLen == 3

\* Formats whose bit rate divides 8000: every buffer lasts a whole number of
\* milliseconds.
CodecFormats ==
    { f \in [sampleRate : {125, 250, 500, 1000}, channels : {1, 2},
             bitsPerSample : {8, 16}] :
        8000 % (f.sampleRate * f.channels * f.bitsPerSample) = 0 }

\* buffer with the byte at `offset` replaced.
withByte(buffer, offset, byte) == [buffer EXCEPT ![offset + 1] = byte]

\* The offsets of 'RIFF', 'WAVE', 'fmt ' and 'data' in a file of createWavFile.
MarkerOffsets == (0..3) \cup (8..15) \cup (36..39)

\* Files readWavFile may be given: files of createWavFile, whole, with one
\* marker byte changed (its high bit set, or zeroed), with another declared
\* data size, or cut short.
CodecBuffers ==
    LET written == { createWavFile(<<1, 2>>, 250, 1, 8),
                     createWavFile(<<3, 4, 5, 6>>, 500, 1, 16) }
    IN  written
        \cup { withByte(w, o, w[o + 1] + 128) : w \in written, o \in MarkerOffsets }
        \cup { withByte(w, o, 0) : w \in written, o \in MarkerOffsets }
        \cup { withByte(w, 40, n) : w \in written, n \in 0..6 }
        \cup UNION { { SubSeq(w, 1, n) : n \in 0..Len(w) } : w \in written }

InitCodec ==
    /\ HandlerAtRest
    /\ call = NoCall
    /\ clock = 0
    /\ requests = <<>>

\* speechService.ts 177-207: createWavFile writes a file.
CreateWavFileCall(audioData, format) ==
    /\ call = NoCall
    /\ call' = [fn |-> "createWavFile",
                audioData |-> audioData,
                sampleRate |-> format.sampleRate,
                channels |-> format.channels,
                bitsPerSample |-> format.bitsPerSample,
                value |-> createWavFile(audioData, format.sampleRate,
                                        format.channels, format.bitsPerSample)]
    /\ UNCHANGED <<handlerVars, clock, requests>>

\* speechService.ts 120-174: readWavFile reads the file createWavFile wrote.
ReadBackCall ==
    /\ call.fn = "createWavFile"
    /\ call' = [fn |-> "readWavFile",
                buffer |-> call.value,
                written |-> call,
                value |-> readWavFile(FileOf(call.value))]
    /\ UNCHANGED <<handlerVars, clock, requests>>

\* speechService.ts 120-174: readWavFile reads a file of another origin.
ReadWavFileCall(buffer) ==
    /\ call = NoCall
    /\ call' = [fn |-> "readWavFile",
                buffer |-> buffer,
                written |-> NoCall,
                value |-> readWavFile(FileOf(buffer))]
    /\ UNCHANGED <<handlerVars, clock, requests>>

MaxOtherChunks == 2

\* A chunk of a RIFF file: the id, the size of the payload, the payload and a
\* pad byte after a payload of odd size.
chunk(id, payload) ==
    id \o writeUInt32LE(Len(payload)) \o payload
       \o (IF Len(payload) % 2 = 1 THEN <<0>> ELSE <<>>)

\* The fmt chunk as createWavFile writes it.
fmtChunk(sampleRate, channels, bitsPerSample) ==
    chunk(FMT, writeUInt16LE(1) \o writeUInt16LE(channels)
                 \o writeUInt32LE(sampleRate)
                 \o writeUInt32LE((sampleRate * channels * bitsPerSample) \div 8)
                 \o writeUInt16LE((channels * bitsPerSample) \div 8)
                 \o writeUInt16LE(bitsPerSample))

\* 'LIST' chunks with an empty payload, one of odd and one of even size.
OtherChunks ==
    { chunk(<<76, 73, 83, 84>>, payload) : payload \in { <<>>, <<7>>, <<7, 8>> } }

\* The RIFF file of form WAVE that holds the chunks.
riffFile(chunks) ==
    RIFF \o writeUInt32LE(4 + Len(Concat(chunks))) \o WAVE \o Concat(chunks)

\* speechService.ts 120-174: readWavFile reads a well-formed file in which
\* the fmt chunk stands among `others` at position p and the data chunk
\* comes last.
ReadChunkedCall(others, p, audioData) ==
    /\ call = NoCall
    /\ p <= Len(others)
    /\ LET chunks == SubSeq(others, 1, p) \o << fmtChunk(500, 2, 16) >>
                        \o SubSeq(others, p + 1, Len(others))
                        \o << chunk(DATA, audioData) >>
       IN  call' = [fn |-> "readWavFile",
                    buffer |-> riffFile(chunks),
                    written |-> NoCall,
                    others |-> others,
                    audioData |-> audioData,
                    value |-> readWavFile(FileOf(riffFile(chunks)))]
    /\ UNCHANGED <<handlerVars, clock, requests>>

NextCodec ==
    \/ \E audioData \in SeqsUpTo({0, 255}, MaxDataLen), format \in CodecFormats :
          CreateWavFileCall(audioData, format)
    \/ ReadBackCall
    \/ \E buffer \in CodecBuffers : ReadWavFileCall(buffer)
    \/ \E others \in SeqsUpTo(OtherChunks, MaxOtherChunks), p \in 0..MaxOtherChunks,
          audioData \in { <<1, 2>>, <<3, 4, 5>> } :
          ReadChunkedCall(others, p, audioData)

SpecCodec == InitCodec /\ [][NextCodec]_vars

(***************************************************************************)
(* The subtitle renderers on their own: the two formatSRTTime, and         *)
(* generateSRTFromSentences, generateChineseSRT and generateBilingualSRT   *)
(* called with timings as synthesizeSpeechWithTimings builds them and with *)
(* translation arrays of every length.                                     *)
(***************************************************************************)
MaxHours == 100

\* Times up to MaxHours hours and more, around the turns of each field.
TimeValues ==
    { ((h * 60 + m) * 60 + sec) * 1000 + ms :
        h \in {0, 1, 23, 24, 99, MaxHours}, m \in {0, 9, 59},
        sec \in {0, 10, 59}, ms \in {0, 7, 99, 999} }

\* The sentenceTimings of up to MaxSentences sentences; one sentence has a
\* line break inside, one duration is zero and one is just short of an hour.
TimingInputs ==
    { buildTimings(d, 0, 0, <<>>) :
        d \in SeqsUpTo([sentence : { <<"A", ".">>, <<"B", "\n", "C", ".">> },
                        durationMs : {0, 1500, 3599999}], MaxSentences) }

\* Translation arrays of up to MaxSentences translations.
TranslationInputs == SeqsUpTo({ <<"X">>, <<"Y">> }, MaxSentences)

InitSubtitles ==
    /\ HandlerAtRest
    /\ call = NoCall
    /\ clock = 0
    /\ requests = <<>>

\* server.ts 184-192 and translationService.ts 171-179.
FormatSRTTimeCall(milliseconds) ==
    /\ call = NoCall
    /\ call' = [fn |-> "formatSRTTime",
                milliseconds |-> milliseconds,
                value |-> formatSRTTime(milliseconds),
                valueTranslation |-> formatSRTTimeTranslation(milliseconds)]
    /\ UNCHANGED <<handlerVars, clock, requests>>

\* server.ts 167-182.
GenerateSRTCall(sentenceTimings) ==
    /\ call = NoCall
    /\ call' = [fn |-> "generateSRTFromSentences",
                sentenceTimings |-> sentenceTimings,
                value |-> generateSRTFromSentences(sentenceTimings)]
    /\ UNCHANGED <<handlerVars, clock, requests>>

\* translationService.ts 148-169.
GenerateChineseCall(sentenceTimings, translations) ==
    /\ call = NoCall
    /\ call' = [fn |-> "generateChineseSRT",
                sentenceTimings |-> sentenceTimings,
                translations |-> translations,
                value |-> generateChineseSRT(sentenceTimings, translations)]
    /\ UNCHANGED <<handlerVars, clock, requests>>

\* translationService.ts 123-145.
GenerateBilingualCall(sentenceTimings, translations) ==
    /\ call = NoCall
    /\ call' = [fn |-> "generateBilingualSRT",
                sentenceTimings |-> sentenceTimings,
                translations |-> translations,
                value |-> generateBilingualSRT(sentenceTimings, translations)]
    /\ UNCHANGED <<handlerVars, clock, requests>>

NextSubtitles ==
    \/ \E milliseconds \in TimeValues : FormatSRTTimeCall(milliseconds)
    \/ \E sentenceTimings \in TimingInputs : GenerateSRTCall(sentenceTimings)
    \/ \E sentenceTimings \in TimingInputs, translations \in TranslationInputs :
          GenerateChineseCall(sentenceTimings, translations)
    \/ \E sentenceTimings \in TimingInputs, translations \in TranslationInputs :
          GenerateBilingualCall(sentenceTimings, translations)

SpecSubtitles == InitSubtitles /\ [][NextSubtitles]_vars

(***************************************************************************)
(* splitIntoSentences on its own, called with every text of up to          *)
(* MaxTextLen characters over a letter, the period, the blank and the line *)
(* break.                                                                  *)
(***************************************************************************)
MaxTextLen == 5

InitSplitter ==
    /\ HandlerAtRest
    /\ call = NoCall
    /\ clock = 0
    /\ requests = <<>>

\* speechService.ts 35-43.
SplitIntoSentencesCall(t) ==
    /\ call = NoCall
    /\ call' = [fn |-> "splitIntoSentences", text |-> t,
                value |-> splitIntoSentences(t)]
    /\ UNCHANGED <<handlerVars, clock, requests>>

NextSplitter ==
    \E t \in SeqsUpTo({"a", ".", " ", "\n"}, MaxTextLen) : SplitIntoSentencesCall(t)

SpecSplitter == InitSplitter /\ [][NextSplitter]_vars

(***************************************************************************)
(* synthesizeSentence event by event: the executor of its promise, the     *)
(* wordBoundary handler and the two callbacks of speakTextAsync.  Offsets  *)
(* and durations of the SDK are in ticks of 100ns; the model takes whole   *)
(* milliseconds, so that / 10000 is exact.                                 *)
(***************************************************************************)
MaxEvents == 3

WordBoundaryEvents == [audioOffset : {0, 5000000}, duration : {0, 2500000}]

\* What speakTextAsync hands to its result callback (a reason, with the
\* cancellation details and the audioDuration) or to its error callback.
SdkCallbacks ==
    { [reason |-> "SynthesizingAudioCompleted", details |-> <<>>,
       audioDuration |-> a] : a \in {0, 80000} }
    \cup
    { [reason |-> "Canceled", details |-> <<"quota exceeded">>, audioDuration |-> 0],
      [reason |-> "SynthesizingAudioStarted", details |-> <<>>, audioDuration |-> 0],
      [reason |-> "ErrorCallback", details |-> <<"ECONNRESET">>, audioDuration |-> 0] }

NoEvent == [reason |-> "none", details |-> <<>>, audioDuration |-> 0]

\* resolve(value) of the promise of `c`: only the first call has an effect.
resolve(c, event, value) ==
    IF c.state # "pending" THEN c
    ELSE [c EXCEPT !.state = "fulfilled", !.value = value, !.terminal = event,
                   !.resolvedAfter = Len(c.seen), !.resolutions = @ + 1]

InitFragment ==
    /\ HandlerAtRest
    /\ call = NoCall
    /\ clock = 0
    /\ requests = <<>>

\* speechService.ts 53-71 and 109-115: the executor sets the synthesizer up
\* and registers the handlers, or something it calls throws and the catch
\* resolves.
SynthesizeSentenceCall(setupThrows) ==
    /\ call = NoCall
    /\ LET started == [fn |-> "synthesizeSentence", registered |-> ~setupThrows,
                       duration |-> 0, state |-> "pending",
                       value |-> [success |-> FALSE, duration |-> 0, error |-> <<>>],
                       terminal |-> NoEvent, seen |-> <<>>, resolvedAfter |-> 0,
                       resolutions |-> 0, callbacks |-> 0]
           thrown == [reason |-> "Exception", audioDuration |-> 0,
                      details |-> <<"throwIfNullOrWhitespace:subscriptionKey">>]
       IN  call' = IF setupThrows
                   THEN resolve(started, thrown,
                                synthesizeSentence(
                                    [reason |-> thrown.reason,
                                     details |-> thrown.details,
                                     wordEnd |-> 0, audioDuration |-> 0,
                                     file |-> NoFile]))
                   ELSE started
    /\ UNCHANGED <<handlerVars, clock, requests>>

\* A variant in which the last word boundary event sets the duration.
WordBoundaryLastWins(e) ==
    /\ call.fn = "synthesizeSentence"
    /\ call.registered
    /\ Len(call.seen) + call.callbacks < MaxEvents
    /\ call' = [call EXCEPT !.duration = (e.audioOffset + e.duration) \div 10000,
                            !.seen = Append(@, e)]
    /\ UNCHANGED <<handlerVars, clock, requests>>

\* speechService.ts 64-69: a wordBoundary event, before or after the result.
WordBoundary(e) ==
    /\ call.fn = "synthesizeSentence"
    /\ call.registered
    /\ Len(call.seen) + call.callbacks < MaxEvents
    /\ LET endTime == (e.audioOffset + e.duration) \div 10000 IN
       call' = [call EXCEPT !.duration = IF endTime > @ THEN endTime ELSE @,
                            !.seen = Append(@, e)]
    /\ UNCHANGED <<handlerVars, clock, requests>>

\* A variant whose result callback does nothing for an unexpected reason.
SpeakCallbackWithoutElse(event) ==
    /\ call.fn = "synthesizeSentence"
    /\ call.registered
    /\ Len(call.seen) + call.callbacks < MaxEvents
    /\ LET counted == [call EXCEPT !.callbacks = @ + 1] IN
       call' = IF event.reason = "SynthesizingAudioStarted" THEN counted
               ELSE resolve(counted, event,
                      synthesizeSentence(
                          [reason |-> event.reason, details |-> event.details,
                           wordEnd |-> call.duration,
                           audioDuration |-> event.audioDuration,
                           file |-> NoFile]))
    /\ UNCHANGED <<handlerVars, clock, requests>>

\* speechService.ts 73-107: the result callback or the error callback of
\* speakTextAsync; each branch resolves with the duration as it is now.
SpeakCallback(event) ==
    /\ call.fn = "synthesizeSentence"
    /\ call.registered
    /\ Len(call.seen) + call.callbacks < MaxEvents
    /\ call' = resolve([call EXCEPT !.callbacks = @ + 1], event,
                  synthesizeSentence(
                      [reason |-> event.reason, details |-> event.details,
                       wordEnd |-> call.duration,
                       audioDuration |-> event.audioDuration,
                       file |-> NoFile]))
    /\ UNCHANGED <<handlerVars, clock, requests>>

NextFragment ==
    \/ \E setupThrows \in BOOLEAN : SynthesizeSentenceCall(setupThrows)
    \/ \E e \in WordBoundaryEvents : WordBoundary(e)
    \/ \E event \in SdkCallbacks : SpeakCallback(event)

SpecFragment == InitFragment /\ [][NextFragment]_vars

(***************************************************************************)
(* Properties.                                                             *)
(***************************************************************************)
Launched == Len(synthesisPromises) > 0

SynthesisReturned ==
    pc \in {"synthesisReturned", "awaitTranslation", "translationReturned", "done"}

SynthesisFailed(k) ==
    /\ synthesisPromises[k].settled
    /\ ~synthesisPromises[k].value.result.success

SomeSynthesisFailed == \E k \in 1..Len(synthesisPromises) : SynthesisFailed(k)

LowestFailedSynthesis ==
    CHOOSE k \in 1..Len(synthesisPromises) :
        SynthesisFailed(k) /\ \A j \in 1..(k - 1) : ~SynthesisFailed(j)

\* C1: when at least one fragment of the batch failed, what
\* synthesizeSpeechWithTimings returns is a failure whose error is the error
\* of the failed fragment with the lowest sentence index, whatever the order
\* in which the fragments completed.
C1_LowestIndexFailureWins ==
    (SynthesisReturned /\ SomeSynthesisFailed) =>
        /\ ~result.success
        /\ result.error = synthesisPromises[LowestFailedSynthesis].value.result.error

\* Two fragments failed with different errors and the one with the higher
\* index failed first.
C1_Witness ==
    /\ pc = "synthesisReturned"
    /\ SomeSynthesisFailed
    /\ \E k \in 1..Len(synthesisPromises) :
          /\ k > LowestFailedSynthesis
          /\ SynthesisFailed(k)
          /\ synthesisPromises[k].value.result.error
                 # synthesisPromises[LowestFailedSynthesis].value.result.error
          /\ synthDone[1] = k
    /\ ~result.success

\* C2: when a fragment of the batch failed, then once
\* synthesizeSpeechWithTimings has returned no staging file of the batch is
\* left (those of the fragments that succeeded included), the combined audio
\* file was not written, and the handler writes no subtitle file.
C2_AllOrNothing ==
    (SynthesisReturned /\ SomeSynthesisFailed) =>
        /\ \A k \in 1..Len(staging) : ~staging[k].exists
        /\ ~output.audio.exists
        /\ ~output.srt.exists
        /\ ~output.chinese.exists
        /\ ~output.bilingual.exists

\* The handler has answered a batch in which one fragment failed and another
\* one completed (and so had its container in the staging directory).
C2_Witness ==
    /\ pc = "done"
    /\ SomeSynthesisFailed
    /\ \E k \in 1..Len(synthesisPromises) : synthesisPromises[k].value.result.success
    /\ response.status = 500

\* C3: once fragments were launched, no staging file of the batch exists
\* when synthesizeSpeechWithTimings has returned, on any exit path.
C3_GuaranteedCleanup ==
    (SynthesisReturned /\ Launched) => \A k \in 1..Len(staging) : ~staging[k].exists

NoFinalFile ==
    /\ ~output.audio.exists
    /\ ~output.srt.exists
    /\ ~output.chinese.exists
    /\ ~output.bilingual.exists

\* C4: whenever the handler answers with a failure, none of the final files
\* of the request (combined audio, plain, translated and bilingual subtitles)
\* exists.
C4_NoPartialOutput ==
    (response.status \in {400, 500}) => NoFinalFile

\* C5: a successful result has exactly one timing per split sentence, and
\* the k-th timing carries the text of the k-th sentence and the index k,
\* whatever the order in which the fragments completed.
C5_OrderRestored ==
    (SynthesisReturned /\ result.success) =>
        /\ Len(result.sentenceTimings) = Len(sentences)
        /\ \A k \in 1..Len(sentences) :
              /\ result.sentenceTimings[k].sentence = sentences[k]
              /\ result.sentenceTimings[k].index = k

\* A batch of different sentences succeeded although the first sentence was
\* not the first to complete.
C5_Witness ==
    /\ pc = "synthesisReturned"
    /\ result.success
    /\ Len(sentences) >= 2
    /\ sentences[1] # sentences[2]
    /\ synthDone[1] # 1

\* The duration the codec derives for the fragment at position k.
FragmentDuration(k) ==
    LET wavData == readWavFile(staging[k]) IN
    IF wavData.valid THEN wavData.durationMs ELSE 0

JoinStep == pc = "awaitSynthesis" /\ pc' = "synthesisReturned"

\* C6: the timings of a successful result start at 0, each one ends where
\* the next one starts, and the k-th one lasts as long as the k-th fragment.
C6_TimelineInvariant ==
    [][ (JoinStep /\ result'.success) =>
          LET t == result'.sentenceTimings IN
          /\ Len(t) = Len(staging)
          /\ t[1].startTime = 0
          /\ \A i \in 1..(Len(t) - 1) : t[i].endTime = t[i + 1].startTime
          /\ \A i \in 1..Len(t) :
                /\ t[i].endTime - t[i].startTime = FragmentDuration(i)
                /\ t[i].endTime >= t[i].startTime ]_vars

\* A successful result with two timings of different, positive lengths.
C6_Witness ==
    /\ pc = "synthesisReturned"
    /\ result.success
    /\ Len(result.sentenceTimings) >= 2
    /\ result.sentenceTimings[1].endTime > 0
    /\ result.sentenceTimings[2].endTime - result.sentenceTimings[2].startTime
           \notin {0, result.sentenceTimings[1].endTime}

AllSynthesesSucceeded ==
    \A k \in 1..Len(synthesisPromises) :
        synthesisPromises[k].settled /\ synthesisPromises[k].value.result.success

FormatsDiffer(a, b) ==
    \/ a.sampleRate # b.sampleRate
    \/ a.channels # b.channels
    \/ a.bitsPerSample # b.bitsPerSample

FormatMismatch ==
    \E i, j \in 1..Len(staging) :
        /\ readWavFile(staging[i]).valid
        /\ readWavFile(staging[j]).valid
        /\ FormatsDiffer(readWavFile(staging[i]), readWavFile(staging[j]))

\* C7: when two decoded fragments of a batch differ in sample rate, channel
\* count or bits per sample, synthesizeSpeechWithTimings returns a failure
\* and writes no combined container.
C7_FormatMismatchRejected ==
    [][ (JoinStep /\ AllSynthesesSucceeded /\ FormatMismatch) =>
          (~result'.success /\ ~output'.audio.exists) ]_vars

DecodeFailure ==
    \E k \in 1..Len(staging) : ~readWavFile(staging[k]).valid

\* C8: when every synthesis succeeded and readWavFile returns null for the
\* staging file of a fragment, synthesizeSpeechWithTimings returns a failure,
\* writes no combined audio file and returns no timings.
C8_DecodeFailureAborts ==
    [][ (JoinStep /\ AllSynthesesSucceeded /\ DecodeFailure) =>
          /\ ~result'.success
          /\ ~output'.audio.exists
          /\ result'.sentenceTimings = <<>> ]_vars

ConfigurationErrorAnswered ==
    response.error \in {SpeechNotConfigured, TranslationNotConfigured}

\* C9: when the handler reports a missing credential, no remote synthesis or
\* translation call of the request has been made.
C9_ConfigurationBeforeRemoteCalls ==
    ConfigurationErrorAnswered =>
        (remoteCalls.synthesis = 0 /\ remoteCalls.translation = 0)

TranslationReturned == pc \in {"translationReturned", "done"}

TranslationFailed(k) ==
    /\ translationPromises[k].settled
    /\ ~translationPromises[k].value.success

SomeTranslationFailed ==
    \E k \in 1..Len(translationPromises) : TranslationFailed(k)

LowestFailedTranslation ==
    CHOOSE k \in 1..Len(translationPromises) :
        TranslationFailed(k) /\ \A j \in 1..(k - 1) : ~TranslationFailed(j)

\* C10: translateSentencesToChinese makes one request per sentence and returns
\* only when all of them are answered; when one of them failed it returns a
\* failure without translations whose error is the error of the failed
\* sentence with the lowest index, whatever the order of the answers.
C10_TranslationFailurePolicy ==
    /\ (pc \in {"awaitTranslation", "translationReturned"}) =>
          /\ Len(translationPromises) = Len(sentences)
          /\ remoteCalls.translation = Len(sentences)
          /\ \A k \in 1..Len(sentences) :
                translationPromises[k].sentence = sentences[k]
    /\ (pc = "translationReturned") =>
          \A k \in 1..Len(translationPromises) : translationPromises[k].settled
    /\ (TranslationReturned /\ SomeTranslationFailed) =>
          /\ ~translationResult.success
          /\ translationResult.translations = <<>>
          /\ translationResult.error
                 = translationPromises[LowestFailedTranslation].value.error

\* Two sentences failed to translate with different errors and the one with
\* the higher index was answered first.
C10_Witness ==
    /\ pc = "translationReturned"
    /\ SomeTranslationFailed
    /\ \E k \in 1..Len(translationPromises) :
          /\ k > LowestFailedTranslation
          /\ TranslationFailed(k)
          /\ translationPromises[k].value.error
                 # translationPromises[LowestFailedTranslation].value.error
          /\ transDone[1] = k
    /\ ~translationResult.success

\* C11: when translateSentencesToChinese succeeds it returns one translation
\* per sentence, and the translation at position k is the one the service
\* gave for sentence k, whatever the order in which the answers came.
C11_TranslationAlignment ==
    (TranslationReturned /\ translationResult.success) =>
       /\ Len(translationResult.translations) = Len(sentences)
       /\ \A k \in 1..Len(sentences) :
             /\ translationPromises[k].sentence = sentences[k]
             /\ translationPromises[k].value.success
             /\ translationResult.translations[k]
                    = translationPromises[k].value.translation

\* Two sentences got different translations and the second was answered first.
C11_Witness ==
    /\ pc = "translationReturned"
    /\ translationResult.success
    /\ Len(sentences) = 2
    /\ transDone[1] = 2
    /\ translationPromises[1].value.translation
           # translationPromises[2].value.translation

\* The fragment syntheses in flight: request and position.
InFlight ==
    { f \in (1..MaxRequests) \X (1..MaxSentences) :
        /\ requests[f[1]].pc = "awaitSynthesis"
        /\ f[2] <= Len(requests[f[1]].settled)
        /\ ~requests[f[1]].settled[f[2]] }

\* C12: no two fragment syntheses that are in flight at the same time, in one
\* batch or in two batches using the same output directory, have the same
\* staging file path.
C12_StagingPathsDistinct ==
    \A f \in InFlight, g \in InFlight :
        (f # g) => (requests[f[1]].tempFiles[f[2]] # requests[g[1]].tempFiles[g[2]])

\* C13: readWavFile of the file createWavFile wrote for a non-empty sample
\* buffer returns the sample rate, channel count and bit depth that were
\* written, the same sample bytes, and the duration
\* bytes / (sampleRate * channels * bitsPerSample / 8) * 1000.
C13_ContainerRoundTrip ==
    (call.fn = "readWavFile" /\ call.written.fn = "createWavFile"
        /\ call.written.audioData # <<>>) =>
       /\ call.value.valid
       /\ call.value.sampleRate = call.written.sampleRate
       /\ call.value.channels = call.written.channels
       /\ call.value.bitsPerSample = call.written.bitsPerSample
       /\ call.value.data = call.written.audioData
       /\ call.value.durationMs * call.written.sampleRate * call.written.channels
              * call.written.bitsPerSample
            = 8000 * Len(call.written.audioData)

\* A buffer of three bytes in a two-channel 16-bit format whose sample rate
\* takes two bytes was written and read back.
C13_Witness ==
    /\ call.fn = "readWavFile"
    /\ call.written.fn = "createWavFile"
    /\ call.written.audioData = <<0, 255, 255>>
    /\ call.written.sampleRate = 500
    /\ call.written.channels = 1
    /\ call.written.bitsPerSample = 16
    /\ call.value.valid
    /\ call.value.durationMs = 3

\* The file does not begin with the four bytes 'RIFF'.
LacksRiffMarker(buffer) == Len(buffer) < 4 \/ SubSeq(buffer, 1, 4) # RIFF

\* The file does not have the four bytes 'WAVE' at offset 8.
LacksWaveMarker(buffer) == Len(buffer) < 12 \/ SubSeq(buffer, 9, 12) # WAVE

\* The four bytes 'data' occur nowhere in the file: it has no data chunk.
LacksDataMarker(buffer) ==
    \A o \in 1..Len(buffer) :
        o + 3 > Len(buffer) \/ SubSeq(buffer, o, o + 3) # DATA

\* C14: readWavFile returns null for every file that lacks the leading RIFF
\* marker, lacks the WAVE marker, or contains no data chunk.
C14_MalformedRejected ==
    (call.fn = "readWavFile"
        /\ (LacksRiffMarker(call.buffer) \/ LacksWaveMarker(call.buffer)
              \/ LacksDataMarker(call.buffer))) =>
       call.value = Null

\* C15: for every file readWavFile accepts, the duration is the one of the
\* sample bytes returned: durationMs * (sampleRate * channels *
\* bitsPerSample / 8) = 1000 * bytes returned, also when the declared size
\* of the data chunk is not the number of bytes that follow its header.
\* Durations are whole milliseconds here, so the quotient is taken rounded
\* down.
C15_DurationOfReturnedData ==
    (call.fn = "readWavFile" /\ call.value # Null) =>
       LET bitRate == call.value.sampleRate * call.value.channels
                          * call.value.bitsPerSample
           bits == 8000 * Len(call.value.data)
       IN  /\ call.value.durationMs * bitRate <= bits
           /\ bits < (call.value.durationMs + 1) * bitRate

\* The text of a list of lines, each ended by a line break.
RECURSIVE LinesText(_)
LinesText(lines) ==
    IF lines = <<>> THEN <<>>
    ELSE Head(lines) \o <<"\n">> \o LinesText(Tail(lines))

\* The text of a list of records, an empty line between two of them.
RECURSIVE RecordsText(_)
RecordsText(records) ==
    IF Len(records) <= 1 THEN LinesText(Head(records))
    ELSE LinesText(Head(records)) \o <<"\n">> \o RecordsText(Tail(records))

TimeRangeLine(timing) ==
    formatSRTTimeTranslation(timing.startTime) \o <<" ", "-", "-", ">", " ">>
        \o formatSRTTimeTranslation(timing.endTime)

\* C16: with fewer translations than timings, generateChineseSRT and
\* generateBilingualSRT still render one record per timing, in the order of
\* the timings; the translation line of record k is translation k when
\* there is one and empty when there is none.
C16_ShortTranslations ==
    (call.fn \in {"generateChineseSRT", "generateBilingualSRT"}
        /\ Len(call.translations) < Len(call.sentenceTimings)) =>
       LET N == Len(call.sentenceTimings)
           M == Len(call.translations)
           translationLine(k) == IF k <= M THEN call.translations[k] ELSE <<>>
           record(k) ==
               LET timing == call.sentenceTimings[k] IN
               IF call.fn = "generateChineseSRT"
               THEN << NumToString(k), TimeRangeLine(timing), translationLine(k) >>
               ELSE << NumToString(k), TimeRangeLine(timing), timing.sentence,
                       translationLine(k) >>
       IN  call.value = RecordsText([k \in 1..N |-> record(k)])

\* Two timings and one translation: the second record has an empty
\* translation line.
C16_Witness ==
    /\ call.fn = "generateBilingualSRT"
    /\ Len(call.sentenceTimings) = 2
    /\ call.translations = << <<"Y">> >>
    /\ call.sentenceTimings[2].sentence = <<"A", ".">>
    /\ SubSeq(call.value, Len(call.value) - 3, Len(call.value))
           = <<"A", ".", "\n", "\n">>

\* The number a string of decimal digits stands for; -1 when it is not one.
RECURSIVE DigitsValue(_)
DigitsValue(chars) ==
    IF chars = <<>> THEN 0
    ELSE LET last == chars[Len(chars)]
             front == DigitsValue(SubSeq(chars, 1, Len(chars) - 1))
         IN  IF front < 0 \/ \A d \in 1..10 : DigitChars[d] # last THEN -1
             ELSE front * 10 + (CHOOSE d \in 1..10 : DigitChars[d] = last) - 1

\* C17: for a whole number t of milliseconds both formatSRTTime render
\* H:MM:SS,mmm with H * 3600000 + MM * 60000 + SS * 1000 + mmm = t,
\* MM and SS at most 59 in two digits, mmm at most 999 in three digits, H in
\* two digits or more and never wrapped, and they render the same string.
C17_TimeFormat ==
    (call.fn = "formatSRTTime") =>
       LET v == call.value
           n == Len(v)
           H == DigitsValue(SubSeq(v, 1, n - 10))
           MM == DigitsValue(SubSeq(v, n - 8, n - 7))
           SS == DigitsValue(SubSeq(v, n - 5, n - 4))
           mmm == DigitsValue(SubSeq(v, n - 2, n))
       IN  /\ n >= 12
           /\ v[n - 9] = ":" /\ v[n - 6] = ":" /\ v[n - 3] = ","
           /\ H >= 0 /\ MM \in 0..59 /\ SS \in 0..59 /\ mmm \in 0..999
           /\ H * 3600000 + MM * 60000 + SS * 1000 + mmm = call.milliseconds
           /\ call.valueTranslation = v

\* A time of a hundred hours and more is rendered with three hour digits.
C17_Witness ==
    /\ call.fn = "formatSRTTime"
    /\ call.milliseconds = ((MaxHours * 60 + 59) * 60 + 10) * 1000 + 7
    /\ Len(call.value) >= 13
    /\ SubSeq(call.value, Len(call.value) - 9, Len(call.value))
           = <<":", "5", "9", ":", "1", "0", ",", "0", "0", "7">>

\* C18: for one timing or more, generateSRTFromSentences renders one record
\* per timing, in the order of the timings: the index line, the time range
\* line, the sentence and an empty line, all joined by single line breaks;
\* generateBilingualSRT puts the translation after the sentence and
\* generateChineseSRT puts it in the place of the sentence.  The output is a
\* function of the timings and translations alone.
C18_RecordLayout ==
    (call.fn \in {"generateSRTFromSentences", "generateChineseSRT",
                  "generateBilingualSRT"}
        /\ Len(call.sentenceTimings) >= 1) =>
       LET timings == call.sentenceTimings
           head(k) == << NumToString(timings[k].index), TimeRangeLine(timings[k]) >>
           translated(k) ==
               IF k \in DOMAIN call.translations THEN call.translations[k] ELSE <<>>
           body(k) ==
               CASE call.fn = "generateSRTFromSentences" -> << timings[k].sentence >>
                 [] call.fn = "generateChineseSRT" -> << translated(k) >>
                 [] call.fn = "generateBilingualSRT" ->
                        << timings[k].sentence, translated(k) >>
       IN  call.value = RecordsText([k \in 1..Len(timings) |-> head(k) \o body(k)])

\* Two timings were rendered by generateSRTFromSentences: the text ends with
\* the second sentence and one line break.
C18_Witness ==
    /\ call.fn = "generateSRTFromSentences"
    /\ Len(call.sentenceTimings) = 2
    /\ call.sentenceTimings[1].sentence # call.sentenceTimings[2].sentence
    /\ call.sentenceTimings[2].sentence = <<"A", ".">>
    /\ SubSeq(call.value, Len(call.value) - 2, Len(call.value)) = <<"A", ".", "\n">>

\* The text without the white space at its ends and after its periods:
\* a white space character stays when the nearest other character before it
\* is not a period and some other character follows it.
RECURSIVE WithoutSeparators(_, _, _)
WithoutSeparators(t, i, before) ==
    IF i > Len(t) THEN <<>>
    ELSE IF ~IsSpace(t[i]) THEN <<t[i]>> \o WithoutSeparators(t, i + 1, t[i])
    ELSE IF before \in {"", "."} \/ \A j \in i..Len(t) : IsSpace(t[j])
         THEN WithoutSeparators(t, i + 1, before)
         ELSE <<t[i]>> \o WithoutSeparators(t, i + 1, before)

RECURSIVE Flatten(_)
Flatten(list) == IF list = <<>> THEN <<>> ELSE Head(list) \o Flatten(Tail(list))

\* C19: for a text with a period in it, splitIntoSentences returns, in the
\* order of the text, sentences that are not empty and neither begin nor end
\* with white space, and put one after the other they are the text without
\* the white space between the sentences and at its ends.
C19_SplitterReconstruction ==
    (call.fn = "splitIntoSentences"
        /\ \E i \in 1..Len(call.text) : call.text[i] = ".") =>
       /\ \A k \in 1..Len(call.value) :
             /\ call.value[k] # <<>>
             /\ ~IsSpace(Head(call.value[k]))
             /\ ~IsSpace(call.value[k][Len(call.value[k])])
       /\ Flatten(call.value) = WithoutSeparators(call.text, 1, "")

\* A text with white space at its start, between its two sentences and at
\* its end was split in two.
C19_Witness ==
    /\ call.fn = "splitIntoSentences"
    /\ call.text = <<" ", ".", "\n", "a", " ">>
    /\ call.value = << <<".">>, <<"a">> >>

\* C20: when the text has no sentence, synthesizeSpeechWithTimings returns
\* the failure 'No sentences found in text' at once: no synthesis is
\* started, no staging file and no combined audio file is written.
C20_EmptySplitIsInputError ==
    (pc # "idle" /\ splitIntoSentences(text) = <<>>) =>
       /\ pc = "synthesisReturned"
       /\ ~result.success
       /\ result.error = <<"No sentences found in text">>
       /\ result.sentenceTimings = <<>>
       /\ synthesisPromises = <<>>
       /\ remoteCalls.synthesis = 0
       /\ \A k \in 1..Len(staging) : ~staging[k].exists
       /\ ~output.audio.exists

\* The function was called with a blank text and has returned.
C20_Witness ==
    /\ text = <<" ">>
    /\ pc = "synthesisReturned"
    /\ sentences = <<>>
    /\ ~result.success

SomeSynthesisUnresolved ==
    /\ pc = "awaitSynthesis"
    /\ \E k \in 1..Len(synthesisPromises) : ~synthesisPromises[k].settled

\* C21: while a synthesis of the batch is unresolved, no step of
\* synthesizeSpeechWithTimings deletes a staging file, writes the combined
\* audio or returns a result, also when another synthesis has failed
\* already; the staging files are read in the step that returns, not before.
C21_JoinBeforeActing ==
    [][ SomeSynthesisUnresolved =>
          /\ pc' = "awaitSynthesis"
          /\ result' = result /\ result = NoResult
          /\ output' = output /\ ~output.audio.exists
          /\ Len(staging') = Len(staging)
          /\ \A k \in 1..Len(staging) : staging[k].exists => staging'[k].exists ]_vars

\* The first sentence has failed and left a file, the second one is still
\* being synthesized, and the function is still waiting.
C21_Witness ==
    /\ Len(synthesisPromises) = 2
    /\ SynthesisFailed(1)
    /\ staging[1].exists
    /\ ~synthesisPromises[2].settled
    /\ pc = "awaitSynthesis"
    /\ result = NoResult

\* C22: once speakTextAsync has called back, or the set-up has thrown, the
\* promise of synthesizeSentence is fulfilled, by one resolution and never
\* by a rejection; its value has success = TRUE exactly when the first call
\* back reported a completed synthesis, and an error text otherwise; what
\* arrives after the resolution leaves the value as it is.
C22_SingleResolution ==
    [][ (call'.fn = "synthesizeSentence") =>
          /\ call'.state \in {"pending", "fulfilled"}
          /\ (call'.callbacks > 0 \/ ~call'.registered) =>
                /\ call'.state = "fulfilled"
                /\ call'.resolutions = 1
                /\ call'.value.success
                       = (call'.terminal.reason = "SynthesizingAudioCompleted")
                /\ ~call'.value.success =>
                       (call'.value.duration = 0 /\ call'.value.error # <<>>)
          /\ (call.fn = "synthesizeSentence" /\ call.state = "fulfilled") =>
                (call'.value = call.value /\ call'.state = "fulfilled") ]_vars

\* A completed synthesis resolved the promise; a word boundary event and a
\* second call back came after it.
C22_Witness ==
    /\ call.fn = "synthesizeSentence"
    /\ call.state = "fulfilled"
    /\ call.value.success
    /\ call.callbacks = 2
    /\ Len(call.seen) = 1
    /\ call.resolvedAfter = 0
    /\ call.duration > call.value.duration

\* The furthest audioOffset + duration of the first n events of `seen`.
RECURSIVE FurthestEnd(_, _)
FurthestEnd(seen, n) ==
    IF n = 0 THEN 0
    ELSE LET rest == FurthestEnd(seen, n - 1)
             this == seen[n].audioOffset + seen[n].duration
         IN  IF this > rest THEN this ELSE rest

\* C25: the duration of a completed synthesis is the furthest
\* audioOffset + duration of the word boundary events received before the
\* completion when that is positive, in whatever order they came; else the
\* audioDuration of the result, and 0 when there is none.  The running
\* duration is the furthest end seen so far, so it never decreases.
C25_FragmentDuration ==
    (call.fn = "synthesizeSentence") =>
       /\ call.duration * 10000 = FurthestEnd(call.seen, Len(call.seen))
       /\ (call.state = "fulfilled" /\ call.value.success) =>
             LET furthest == FurthestEnd(call.seen, call.resolvedAfter) IN
             call.value.duration * 10000 =
                 IF furthest > 0 THEN furthest ELSE call.terminal.audioDuration

\* Two word boundary events came in decreasing order before the completion.
C25_Witness ==
    /\ call.fn = "synthesizeSentence"
    /\ call.state = "fulfilled"
    /\ call.value.success
    /\ call.resolvedAfter = 2
    /\ call.seen[1].audioOffset + call.seen[1].duration
          > call.seen[2].audioOffset + call.seen[2].duration
    /\ call.seen[2].audioOffset + call.seen[2].duration > 0
    /\ call.terminal.audioDuration > 0

\* The sample data of the fragments from sentence k on that decode, one
\* after the other in the order of the sentences.
RECURSIVE DecodedSamplesFrom(_)
DecodedSamplesFrom(k) ==
    IF k > Len(staging) THEN <<>>
    ELSE LET wavData == readWavFile(staging[k]) IN
         (IF wavData.valid THEN wavData.data ELSE <<>>) \o DecodedSamplesFrom(k + 1)

\* The number of sample bytes of the fragments from sentence k on that decode.
RECURSIVE DecodedLengthFrom(_)
DecodedLengthFrom(k) ==
    IF k > Len(staging) THEN 0
    ELSE LET wavData == readWavFile(staging[k]) IN
         (IF wavData.valid THEN Len(wavData.data) ELSE 0) + DecodedLengthFrom(k + 1)

\* C23: on success the sample data written after the 44 bytes of the header
\* of the combined container is the sample data of the decoded fragments in
\* the order of the sentences, whatever the order in which the syntheses
\* ended, and its length is the sum of their lengths.
C23_CombinedAudioOrder ==
    [][ (JoinStep /\ result'.success) =>
          LET written == output'.audio.bytes IN
          /\ output'.audio.exists
          /\ SubSeq(written, 45, Len(written)) = DecodedSamplesFrom(1)
          /\ Len(written) - 44 = DecodedLengthFrom(1) ]_vars

\* The second of two syntheses ended first; the combined container holds the
\* sample of the first sentence and then the two samples of the second one.
C23_Witness ==
    /\ pc = "synthesisReturned"
    /\ result.success
    /\ Len(synthDone) = 2
    /\ synthDone[1] = 2
    /\ output.audio.exists
    /\ SubSeq(output.audio.bytes, 45, Len(output.audio.bytes)) = <<1, 2, 3>>

\* C24: readWavFile of a well-formed file whose data chunk comes after the
\* fmt chunk and any other chunks, also empty ones and ones of odd size
\* with their pad byte, returns the bytes of the data chunk and the sample
\* rate, channels and bit depth of the fmt chunk.
C24_SequentialChunkScan ==
    (call.fn = "readWavFile" /\ "others" \in DOMAIN call) =>
       /\ call.value.valid
       /\ call.value.data = call.audioData
       /\ call.value.sampleRate = 500
       /\ call.value.channels = 2
       /\ call.value.bitsPerSample = 16

\* C26: on a successful return the total duration is the endTime of the last
\* timing, and it is the duration of the combined container that was
\* written: its sample bytes divided by the bytes per second of its header.
C26_AudioTimelineConsistency ==
    (pc = "synthesisReturned" /\ result.success) =>
       LET timings == result.sentenceTimings
           written == output.audio.bytes
           channels == readUInt16LE(written, 22)
           sampleRate == readUInt32LE(written, 24)
           bitsPerSample == readUInt16LE(written, 34)
       IN  /\ result.duration = timings[Len(timings)].endTime
           /\ output.audio.exists
           /\ result.duration * sampleRate * channels * bitsPerSample
                  = 8000 * (Len(written) - 44)

\* C27: two requests that are processed at the same time never have the
\* same final audio file path or the same final subtitle file path.
C27_FinalPathsDistinct ==
    \A r \in 1..MaxRequests, q \in 1..MaxRequests :
        (r # q /\ requests[r].pc = "awaitSynthesis"
               /\ requests[q].pc = "awaitSynthesis") =>
           /\ requests[r].audioFilePath # requests[q].audioFilePath
           /\ requests[r].srtFilePath # requests[q].srtFilePath

\* A reply that carries no usable translation: the request threw, the response
\* is not OK, or the first choice's content is missing, empty or only whitespace.
UnusableReply(reply) ==
    \/ reply.thrown
    \/ ~reply.ok
    \/ trim(reply.content) = <<>>

\* C28: a translation reply that is not OK, or whose content is missing, empty
\* or only whitespace, settles that sentence's promise with a failure, a failed
\* promise makes translateSentencesToChinese return a failure, and every
\* translation of a successful result is a non-empty string without leading
\* or trailing whitespace.
C28_TranslationsNeverEmpty ==
    [][ /\ \A k \in 1..Len(translationPromises), reply \in TranslationReplies :
              (TranslationSettles(k, reply) /\ UnusableReply(reply)) =>
                  ~translationPromises'[k].value.success
        /\ TranslationJoin =>
              /\ (\E k \in 1..Len(translationPromises) :
                      ~translationPromises[k].value.success)
                   => ~translationResult'.success
              /\ translationResult'.success =>
                    \A k \in 1..Len(translationResult'.translations) :
                        /\ translationResult'.translations[k] # <<>>
                        /\ trim(translationResult'.translations[k])
                              = translationResult'.translations[k] ]_vars

\* A batch of two returned successfully, one of its replies having carried
\* surrounding whitespace that was trimmed away.
C28_Witness ==
    /\ TranslationReturned
    /\ translationResult.success
    /\ Len(translationResult.translations) = 2
    /\ \E k \in 1..2 : translationResult.translations[k] = <<"Y">>

\* A batch that failed on a response whose content is only whitespace.
C28_WitnessBlank ==
    /\ TranslationReturned
    /\ ~translationResult.success
    /\ translationResult.error = <<"No translation returned from API">>

====
